---- MODULE Spec2Model ----
(***************************************************************************)
(* Model of the site crawler of Scraptopedia (src/unnamed/part_001):       *)
(* crawlSite(url, browser, timeLimit) with its inner recursive function    *)
(* crawl(url), the visited set, the result list allData and the deadline   *)
(* checks against Date.now().                                              *)
(*                                                                         *)
(* A URL is a sequence of characters (small naturals); startsWith is       *)
(* computed on the sequences.  The web is revealed lazily: the first fetch *)
(* of a URL fixes the links of that page, a later fetch of the same URL    *)
(* returns the same links.                                                 *)
(***************************************************************************)
EXTENDS Integers, Sequences, FiniteSets, TLC

\* ---- bounds of the model ------------------------------------------------
MaxLinks == 2          \* links extracted from one page
MaxWebLinks == 3       \* links on all fetched pages together
MaxTimeLimit == 1      \* largest timeLimit (seconds) tried
MaxItems == 3          \* links, and images, of a record given to filterData
MaxText == 3           \* characters of the textContent given to filterData
MaxTotal == 2          \* unique relevant links on the initial page
MaxLimit == 2          \* largest limit tried
MaxOffset == 1         \* largest offset tried

\* ---- program constants --------------------------------------------------
MsPerSec == 1000       \* (Date.now() - startTime) / 1000
DEFAULT_LIMIT == 100   \* const DEFAULT_LIMIT = 100

\* ---- the URL universe ---------------------------------------------------
\* <<1>> is a site root, <<1,1>> and <<1,2>> two sections of it,
\* <<1,2,1>> a page below the second, <<2>> another host.
URLs == { <<1>>, <<1,1>>, <<1,2>>, <<1,2,1>>, <<2>> }

LinkSeqs == UNION { [1..n -> URLs] : n \in 0..MaxLinks }

NoUrl == <<>>

VARIABLES
    url,          \* crawlSite's argument url: the seed
    timeLimit,    \* crawlSite's argument timeLimit (seconds)
    now,          \* Date.now() in ms
    status,       \* "idle" | "running" | "returned" | "failed"
    pageOpen,     \* browser.newPage() done and page.close() not yet
    visited,      \* const visited = new Set()
    allData,      \* const allData = []
    startTime,    \* let startTime = Date.now()
    stack,        \* the activations of crawl(url), innermost last
    result,       \* the value crawlSite resolved with
    web,          \* links of the pages fetched so far (the environment)
    webLinks,     \* number of links revealed so far
    fetchLog,     \* the URLs passed to scrapePageData, in call order
    parentOf,     \* fetched URL -> URL of the page whose link led to it
    expiredSeen,  \* a deadline checkpoint has taken its return branch
    rootExpired,  \* the checkpoint of crawl(seed) took its return branch
    lateDone,     \* URLs whose fetch completed after the deadline passed
    failedUrl,    \* the URL whose fetch threw, NoUrl if none
    run,          \* main and scrapperFunc of the crawler around crawlSite
    tp,           \* the typed scraper: its entry point and scrapePage
    fd            \* filterData: its argument and its results

vars == << url, timeLimit, now, status, pageOpen, visited, allData,
           startTime, stack, result, web, webLinks, fetchLog, parentOf,
           expiredSeen, rootExpired, lateDone, failedUrl, run, tp, fd >>

\* the state outside the crawl
others == << run, tp, fd >>

\* ---- helpers --------------------------------------------------------------
\* String.prototype.startsWith
StartsWith(s, p) ==
    /\ Len(p) <= Len(s)
    /\ SubSeq(s, 1, Len(p)) = p

Top == stack[Len(stack)]

Pop(st) == SubSeq(st, 1, Len(st) - 1)

SetTop(st, f) == [st EXCEPT ![Len(st)] = f]

Frame(u) == [url |-> u, links |-> <<>>, i |-> 1, pc |-> "enter"]

\* the URL of the caller's activation, NoUrl for the call from crawlSite
CallerUrl == IF Len(stack) >= 2 THEN stack[Len(stack) - 1].url ELSE NoUrl

\* if (visited.has(url)) return;
hasVisitedNever(u) == FALSE

hasVisited(u) == u \in visited

\* elapsedTime >= timeLimit, elapsedTime = (Date.now() - startTime) / 1000
ExpiredStrict == (now - startTime) > timeLimit * MsPerSec

Expired == (now - startTime) >= timeLimit * MsPerSec

\* visited.add(url)
MarkVisitedForgot(v, u) == v

MarkVisited(v, u) == v \cup {u}

\* link.startsWith(url): url is the parameter of the enclosing crawl(url),
\* which shadows crawlSite's url
InScopeSwapped(link, pageUrl) == StartsWith(pageUrl, link)

InScope(link, pageUrl) == StartsWith(link, pageUrl)

\* the deadline itself, as the clock and the budget define it
DeadlinePassed == (now - startTime) >= timeLimit * MsPerSec

\* allData.push({ url, ...pageData })
PushRecordUnlessLate(data, rec) ==
    IF DeadlinePassed THEN data ELSE Append(data, rec)

PushRecord(data, rec) == Append(data, rec)

\* for (const link of pageData.links): the iterator moves to the next link
NextLinkStuck(i) == i

NextLink(i) == i + 1

UrlsOf(data) == [k \in 1..Len(data) |-> data[k].url]

\* ---- the state around the crawl ------------------------------------------
\* main and scrapperFunc: phase is the place reached, tlNaN says parseInt
\* gave NaN for the time limit, browser the state of the launched browser
RunRec(ph, nan) ==
    [phase |-> ph, tlNaN |-> nan, browser |-> "none", launches |-> 0,
     launchFailed |-> FALSE, reported |-> FALSE, rawSaved |-> FALSE,
     filteredSaved |-> FALSE, filterCalled |-> FALSE,
     filterDefined |-> FALSE]

\* crawlSite called on its own, with a browser that is already launched
RunDirect == [RunRec("direct", FALSE) EXCEPT !.browser = "open"]

\* a JavaScript number: an integer or NaN
Num(n) == [nan |-> FALSE, v |-> n]

NaNv == [nan |-> TRUE, v |-> 0]

\* a value as it arrives (a field of req.body, or an answer to a prompt
\* once parseInt is applied): undefined, text that is no number, an integer
Undef == [t |-> "undefined", v |-> 0]

NoNumber == [t |-> "nan", v |-> 0]

IntIn(n) == [t |-> "int", v |-> n]

\* the typed scraper: the input, the place reached, the browser, the page
\* loads made (0 is the initial URL, k the k-th relevant link), the links,
\* the items and what the caller got
TpRec(variant, urlGiven, wt, tl, lim, off) ==
    [pc |-> "entry", variant |-> variant, urlGiven |-> urlGiven, wt |-> wt,
     tl |-> tl, limitIn |-> lim, offsetIn |-> off,
     websiteType |-> "", timeLimit |-> NaNv, limit |-> NaNv,
     offset |-> NaNv,
     browser |-> "none", launches |-> 0, launchFailed |-> FALSE,
     loads |-> <<>>, links |-> <<>>, paginated |-> <<>>, idx |-> 1,
     items |-> <<>>, failed |-> {}, output |-> <<>>, saved |-> FALSE,
     responses |-> <<>>, handler |-> "pending", reported |-> FALSE]

TpIdle == [TpRec("none", FALSE, Undef, Undef, Undef, Undef)
              EXCEPT !.pc = "off"]

FdIdle == [pc |-> "off"]

\* ---- initial state --------------------------------------------------------
\* no crawl has started
CrawlIdle ==
    /\ now = 0
    /\ status = "idle"
    /\ pageOpen = FALSE
    /\ visited = {}
    /\ allData = <<>>
    /\ startTime = 0
    /\ stack = <<>>
    /\ result = <<>>
    /\ web = <<>>
    /\ webLinks = 0
    /\ fetchLog = <<>>
    /\ parentOf = <<>>
    /\ expiredSeen = FALSE
    /\ rootExpired = FALSE
    /\ lateDone = {}
    /\ failedUrl = NoUrl

Init ==
    /\ url \in URLs
    /\ timeLimit \in 0..MaxTimeLimit
    /\ CrawlIdle
    /\ run = RunDirect
    /\ tp = TpIdle
    /\ fd = FdIdle

\* ---- actions ----------------------------------------------------------------
\* The clock advances while the crawl is suspended in await
\* scrapePageData; the code between two fetches is synchronous and takes no
\* time on the scale of the budget.  The clock is followed until it is one
\* second past the deadline.
Tick ==
    /\ UNCHANGED others
    /\ status = "running"
    /\ stack # <<>>
    /\ Top.pc = "fetching"
    /\ now - startTime <= timeLimit * MsPerSec
    /\ now' = now + MsPerSec
    /\ UNCHANGED << url, timeLimit, status, pageOpen, visited, allData,
                    startTime, stack, result, web, webLinks, fetchLog,
                    parentOf, expiredSeen, rootExpired, lateDone, failedUrl >>

\* crawlSite: newPage, visited, allData, startTime, then await crawl(url)
crawlSite ==
    /\ UNCHANGED others
    /\ status = "idle"
    /\ run.phase \in {"direct", "crawlSite"}
    /\ status' = "running"
    /\ pageOpen' = TRUE
    /\ visited' = {}
    /\ allData' = <<>>
    /\ startTime' = now
    /\ stack' = << Frame(url) >>
    /\ UNCHANGED << url, timeLimit, now, result, web, webLinks, fetchLog,
                    parentOf, expiredSeen, rootExpired, lateDone, failedUrl >>

\* crawl(url) from its entry to the call of scrapePageData
crawl ==
    /\ UNCHANGED others
    /\ status = "running"
    /\ stack # <<>>
    /\ Top.pc = "enter"
    /\ IF hasVisited(Top.url)
         THEN /\ stack' = Pop(stack)
              /\ UNCHANGED << visited, fetchLog, parentOf, expiredSeen,
                              rootExpired >>
         ELSE IF Expired
           THEN /\ stack' = Pop(stack)
                /\ expiredSeen' = TRUE
                /\ rootExpired' = (rootExpired \/ Len(stack) = 1)
                /\ UNCHANGED << visited, fetchLog, parentOf >>
           ELSE /\ visited' = MarkVisited(visited, Top.url)
                /\ stack' = SetTop(stack, [Top EXCEPT !.pc = "fetching"])
                /\ fetchLog' = Append(fetchLog, Top.url)
                /\ parentOf' = [u \in DOMAIN parentOf \cup {Top.url} |->
                                  IF u = Top.url THEN CallerUrl
                                                 ELSE parentOf[u]]
                /\ UNCHANGED << expiredSeen, rootExpired >>
    /\ UNCHANGED << url, timeLimit, now, status, pageOpen, allData,
                    startTime, result, web, webLinks, lateDone, failedUrl >>

\* the links the page at u shows: fixed by the first fetch of u
PageLinks(u) ==
    IF u \in DOMAIN web
      THEN { web[u] }
      ELSE { l \in LinkSeqs : webLinks + Len(l) <= MaxWebLinks }

\* scrapePageData resolves; allData.push; the for loop is entered
scrapePageDataOk ==
    /\ UNCHANGED others
    /\ status = "running"
    /\ stack # <<>>
    /\ Top.pc = "fetching"
    /\ \E links \in PageLinks(Top.url) :
         /\ web' = [u \in DOMAIN web \cup {Top.url} |->
                      IF u = Top.url THEN links ELSE web[u]]
         /\ webLinks' = IF Top.url \in DOMAIN web THEN webLinks
                                                  ELSE webLinks + Len(links)
         /\ allData' = PushRecord(allData, [url |-> Top.url, links |-> links])
         /\ stack' = SetTop(stack, [Top EXCEPT !.links = links, !.i = 1,
                                               !.pc = "loop"])
    /\ lateDone' = IF DeadlinePassed THEN lateDone \cup {Top.url} ELSE lateDone
    /\ UNCHANGED << url, timeLimit, now, status, pageOpen, visited,
                    startTime, result, fetchLog, parentOf, expiredSeen,
                    rootExpired, failedUrl >>

\* scrapePageData throws (goto, waitForSelector or evaluate): nothing in
\* crawl or crawlSite catches, every activation is left, crawlSite rejects
scrapePageDataThrows ==
    /\ UNCHANGED others
    /\ status = "running"
    /\ stack # <<>>
    /\ Top.pc = "fetching"
    /\ failedUrl' = Top.url
    /\ stack' = <<>>
    /\ status' = "failed"
    /\ UNCHANGED << url, timeLimit, now, pageOpen, visited, allData,
                    startTime, result, web, webLinks, fetchLog, parentOf,
                    expiredSeen, rootExpired, lateDone >>

\* await crawl(link): the caller waits below the new activation
callCrawlNoAwait(s, u) == << [Frame(u) EXCEPT !.pc = "fetching"] >> \o s

callCrawl(s, u) == Append(s, Frame(u))

\* one turn of the for loop of crawl, up to the recursive call
crawlLoop ==
    /\ UNCHANGED others
    /\ status = "running"
    /\ stack # <<>>
    /\ Top.pc = "loop"
    /\ IF Top.i > Len(Top.links)
         THEN /\ stack' = Pop(stack)
              /\ UNCHANGED expiredSeen
         ELSE IF Expired
           THEN /\ stack' = Pop(stack)
                /\ expiredSeen' = TRUE
           ELSE IF InScope(Top.links[Top.i], Top.url)
             THEN /\ stack' = callCrawl(
                        SetTop(stack, [Top EXCEPT !.i = NextLink(Top.i)]),
                        Top.links[Top.i])
                  /\ UNCHANGED expiredSeen
             ELSE /\ stack' = SetTop(stack, [Top EXCEPT !.i = NextLink(Top.i)])
                  /\ UNCHANGED expiredSeen
    /\ UNCHANGED << url, timeLimit, now, status, pageOpen, visited, allData,
                    startTime, result, web, webLinks, fetchLog, parentOf,
                    rootExpired, lateDone, failedUrl >>

\* await crawl(url) is over: page.close(); return allData
crawlSiteReturn ==
    /\ UNCHANGED others
    /\ status = "running"
    /\ stack = <<>>
    /\ pageOpen' = FALSE
    /\ result' = allData
    /\ status' = "returned"
    /\ UNCHANGED << url, timeLimit, now, visited, allData, startTime, stack,
                    web, webLinks, fetchLog, parentOf, expiredSeen,
                    rootExpired, lateDone, failedUrl >>

\* ---- main and scrapperFunc of the crawler --------------------------------
crawlVars == << url, timeLimit, now, status, pageOpen, visited, allData,
                startTime, stack, result, web, webLinks, fetchLog,
                parentOf, expiredSeen, rootExpired, lateDone, failedUrl >>

\* if (!url) ...; if (isNaN(timeLimit) || timeLimit <= 0) ...
mainRejectsLax(u, nan, tl) == u = NoUrl \/ nan

mainRejects(u, nan, tl) == u = NoUrl \/ nan \/ tl <= 0

\* main: the prompt is answered, the input is validated; process.exit(1)
\* on a bad input, else scrapperFunc is called
mainValidates ==
    /\ run.phase = "main"
    /\ run' = IF mainRejects(url, run.tlNaN, timeLimit)
                THEN [run EXCEPT !.phase = "exit", !.reported = TRUE]
                ELSE [run EXCEPT !.phase = "scrapperFunc"]
    /\ UNCHANGED << crawlVars, tp, fd >>

\* scrapperFunc: puppeteer.launch resolves, crawlSite is called
scrapperFuncLaunches ==
    /\ run.phase = "scrapperFunc"
    /\ run' = [run EXCEPT !.phase = "crawlSite", !.browser = "open",
                          !.launches = @ + 1]
    /\ UNCHANGED << crawlVars, tp, fd >>

\* what main does with an error thrown by scrapperFunc: catch, log, end
mainCatchesSilent(r) == [r EXCEPT !.phase = "done"]

mainCatches(r) == [r EXCEPT !.phase = "done", !.reported = TRUE]

\* scrapperFunc: puppeteer.launch rejects; catch logs and rethrows, finally
\* finds browser null, main's catch logs the error
scrapperFuncLaunchThrows ==
    /\ run.phase = "scrapperFunc"
    /\ run' = mainCatches([run EXCEPT !.launchFailed = TRUE])
    /\ UNCHANGED << crawlVars, tp, fd >>

\* crawlSite: browser.newPage() rejects
crawlSiteNewPageThrows ==
    /\ status = "idle"
    /\ run.phase = "crawlSite"
    /\ status' = "failed"
    /\ UNCHANGED << url, timeLimit, now, pageOpen, visited, allData,
                    startTime, stack, result, web, webLinks, fetchLog,
                    parentOf, expiredSeen, rootExpired, lateDone, failedUrl,
                    others >>

\* if (browser) await browser.close()
closeBrowser(b) == IF b = "open" THEN "closed" ELSE b

\* scrapperFunc after crawlSite settled: finally closes the browser; the
\* data go to main, an error is rethrown to main's catch
scrapperFuncFinally ==
    /\ run.phase = "crawlSite"
    /\ status \in {"returned", "failed"}
    /\ run' = IF status = "returned"
                THEN [run EXCEPT !.phase = "save",
                                 !.browser = closeBrowser(@)]
                ELSE mainCatches([run EXCEPT !.browser = closeBrowser(@)])
    /\ UNCHANGED << crawlVars, tp, fd >>

\* main: the raw data are written, filterData(data[0]) is called and its
\* result written; data[0] undefined makes filterData throw into the catch
mainSaves ==
    /\ run.phase = "save"
    /\ run' = IF result # <<>>
                THEN [run EXCEPT !.phase = "done", !.rawSaved = TRUE,
                                 !.filterCalled = TRUE,
                                 !.filterDefined = TRUE,
                                 !.filteredSaved = TRUE]
                ELSE mainCatches([run EXCEPT !.rawSaved = TRUE,
                                             !.filterCalled = TRUE])
    /\ UNCHANGED << crawlVars, tp, fd >>

Step ==
    \/ crawlSite
    \/ crawl
    \/ scrapePageDataOk
    \/ scrapePageDataThrows
    \/ crawlLoop
    \/ crawlSiteReturn

Next ==
    \/ Tick
    \/ crawlSite
    \/ crawl
    \/ scrapePageDataOk
    \/ scrapePageDataThrows
    \/ crawlLoop
    \/ crawlSiteReturn

Spec == Init /\ [][Next]_vars

\* every step of the program is eventually taken: every fetch completes,
\* and synchronous code runs on
LiveSpec == Init /\ [][Next]_vars /\ WF_vars(Step)

\* ---- the typed scraper: entry points ---------------------------------------
\* Object.values(WEBSITE_TYPES)
WEBSITE_TYPES == {"news", "ecommerce", "weather"}

\* String.prototype.toLowerCase on the texts tried
toLowerCase(str) == IF str = "NEWS" THEN "news" ELSE str

\* !x for a field of req.body
notTruthy(x) == x.t = "undefined" \/ (x.t = "int" /\ x.v = 0)

\* parseInt(x)
parseInt(x) == IF x.t = "int" THEN Num(x.v) ELSE NaNv

\* x || d for a number x
orDefault(x, d) == IF x.nan \/ x.v = 0 THEN Num(d) ELSE x

\* = DEFAULT_LIMIT, = 0: the default of a destructured field
withDefault(x, d) == IF x.t = "undefined" THEN IntIn(d) ELSE x

WtInputs == { [t |-> "undefined", s |-> ""], [t |-> "number", s |-> ""],
              [t |-> "string", s |-> "news"], [t |-> "string", s |-> "NEWS"],
              [t |-> "string", s |-> "blog"] }

TlInputs == { Undef, NoNumber } \cup { IntIn(n) : n \in -1..1 }

LimitInputs == { Undef, NoNumber } \cup { IntIn(n) : n \in -1..MaxLimit }

OffsetInputs == { Undef, NoNumber } \cup { IntIn(n) : n \in -1..MaxOffset }

\* what can reach the program: any JSON body for the API, answers to the
\* prompts (texts) for the CLI
TpInputs ==
    { TpRec("api", u, w, t, l, o) :
        u \in BOOLEAN, w \in WtInputs, t \in TlInputs,
        l \in LimitInputs, o \in OffsetInputs }
    \cup
    { TpRec("cli", u, w, t, l, o) :
        u \in BOOLEAN, w \in { x \in WtInputs : x.t = "string" },
        t \in TlInputs \ {Undef}, l \in LimitInputs \ {Undef},
        o \in OffsetInputs \ {Undef} }

respond(r, code, kind) ==
    [r EXCEPT !.responses = Append(@, [code |-> code, kind |-> kind]),
              !.handler = "done", !.pc = "done"]

\* the start of scrapePage(url, websiteType, timeLimit, limit, offset)
callScrapePage(r, w, t, l, o) ==
    [r EXCEPT !.pc = "launch", !.websiteType = w, !.timeLimit = t,
              !.limit = l, !.offset = o]

\* app.post('/scrape'): the validation of the body, up to the call of
\* scrapePage; websiteType.toLowerCase() throws for a websiteType that is
\* no string, outside any try: the handler's promise rejects and the
\* router either leaves the request unanswered or answers with its own
\* (non-JSON) error page
apiHandler ==
    /\ tp.pc = "entry"
    /\ tp.variant = "api"
    /\ IF ~ tp.urlGiven \/ tp.wt.t = "undefined" \/ notTruthy(tp.tl)
         THEN tp' = respond(tp, 400, "error")
         ELSE IF tp.wt.t # "string"
           THEN \/ tp' = [tp EXCEPT !.handler = "crashed", !.pc = "done"]
                \/ tp' = [respond(tp, 500, "html")
                             EXCEPT !.handler = "crashed"]
           ELSE IF toLowerCase(tp.wt.s) \notin WEBSITE_TYPES
             THEN tp' = respond(tp, 400, "error")
             ELSE tp' = callScrapePage(tp, toLowerCase(tp.wt.s),
                          parseInt(tp.tl),
                          parseInt(withDefault(tp.limitIn, DEFAULT_LIMIT)),
                          parseInt(withDefault(tp.offsetIn, 0)))
    /\ UNCHANGED << crawlVars, run, fd >>

\* getUserInput and main of the typed CLI up to the call of scrapePage: an
\* unknown website type throws into main's catch, a missing URL or a bad
\* time limit is reported and main returns
cliMain ==
    /\ tp.pc = "entry"
    /\ tp.variant = "cli"
    /\ IF toLowerCase(tp.wt.s) \notin WEBSITE_TYPES
         THEN tp' = [tp EXCEPT !.reported = TRUE, !.pc = "done"]
         ELSE IF ~ tp.urlGiven \/ parseInt(tp.tl).nan
                 \/ parseInt(tp.tl).v <= 0
           THEN tp' = [tp EXCEPT !.reported = TRUE, !.pc = "done"]
           ELSE tp' = callScrapePage(tp, toLowerCase(tp.wt.s),
                        parseInt(tp.tl),
                        orDefault(parseInt(tp.limitIn), DEFAULT_LIMIT),
                        orDefault(parseInt(tp.offsetIn), 0))
    /\ UNCHANGED << crawlVars, run, fd >>

\* ---- the typed scraper: scrapePage ------------------------------------------
Min(a, b) == IF a < b THEN a ELSE b

Max(a, b) == IF a > b THEN a ELSE b

\* a + b on JavaScript numbers
plus(a, b) == IF a.nan \/ b.nan THEN NaNv ELSE Num(a.v + b.v)

\* ToIntegerOrInfinity: NaN counts as 0
toInteger(a) == IF a.nan THEN 0 ELSE a.v

\* a relative index of Array.prototype.slice: a negative one counts from
\* the end, and both ends are clamped to the array
relativeIndex(k, len) == IF k < 0 THEN Max(len + k, 0) ELSE Min(k, len)

\* Array.prototype.slice(start, end)
slice(a, start, end) ==
    SubSeq(a, relativeIndex(toInteger(start), Len(a)) + 1,
              relativeIndex(toInteger(end), Len(a)))

\* [...new Set(links)] of a page with n distinct relevant links
uniqueLinks(n) == [ k \in 1..n |-> k ]

\* scrapePage rejects: the POST handler's catch answers 500 with
\* {error, details}, the CLI's main logs 'Error:'
scrapePageRejects(r) ==
    IF r.variant = "api" THEN respond(r, 500, "error")
    ELSE [r EXCEPT !.reported = TRUE, !.pc = "done"]

\* the outer catch and the finally of scrapePage: the browser is closed;
\* the API's catch throws the error again, the CLI's only logs it, so that
\* scrapePage returns undefined and main logs 'Scraping completed'
scrapePageCatches(r) ==
    LET c == [r EXCEPT !.browser = "closed"]
    IN  IF r.variant = "api" THEN scrapePageRejects(c)
        ELSE [c EXCEPT !.pc = "done"]

\* the catch of one link's try: the error is logged and the loop goes on
\* with the next link
afterItemErrorBreaks(r) == [r EXCEPT !.idx = Len(r.paginated) + 1]

afterItemError(r) == [r EXCEPT !.idx = @ + 1]

typedVars == << crawlVars, run, fd >>

\* await puppeteer.launch(...)
scrapePageLaunches ==
    /\ tp.pc = "launch"
    /\ \/ tp' = [tp EXCEPT !.pc = "newPage", !.browser = "open",
                             !.launches = @ + 1]
       \/ tp' = scrapePageRejects([tp EXCEPT !.launchFailed = TRUE])
    /\ UNCHANGED typedVars

\* await browser.newPage(), before the try: a failure rejects scrapePage
\* past its finally
scrapePageNewPage ==
    /\ tp.pc = "newPage"
    /\ \/ tp' = [tp EXCEPT !.pc = "goto"]
       \/ tp' = scrapePageRejects(tp)
    /\ UNCHANGED typedVars

\* await page.goto(url, ...): the load of the initial URL
scrapePageGoto ==
    /\ tp.pc = "goto"
    /\ LET r == [tp EXCEPT !.loads = Append(@, 0)]
       IN  \/ tp' = [r EXCEPT !.pc = "links"]
           \/ tp' = scrapePageCatches(r)
    /\ UNCHANGED typedVars

\* getRelevantLinks, total and the slice; getRelevantLinks may throw (in
\* routing_api.js, which does not define it, it is the function of the
\* typed CLI or a ReferenceError)
scrapePageLinks ==
    /\ tp.pc = "links"
    /\ \/ \E n \in 0..MaxTotal :
             tp' = [tp EXCEPT !.pc = "loop", !.links = uniqueLinks(n),
                      !.paginated = slice(uniqueLinks(n), tp.offset,
                                          plus(tp.offset, tp.limit)),
                      !.idx = 1]
       \/ tp' = scrapePageCatches(tp)
    /\ UNCHANGED typedVars

\* one turn of for (const link of paginatedLinks): the load and the
\* extraction, and the push of the item or the catch
scrapePageItem ==
    /\ tp.pc = "loop"
    /\ tp.idx <= Len(tp.paginated)
    /\ LET link == tp.paginated[tp.idx]
           r == [tp EXCEPT !.loads = Append(@, link)]
       IN  \/ tp' = [r EXCEPT !.items = Append(@, link), !.idx = @ + 1]
           \/ tp' = afterItemError([r EXCEPT !.failed = @ \cup {link}])
    /\ UNCHANGED typedVars

\* the output object, the file of the CLI, the finally, and the caller's
\* res.json(data) or 'Scraping completed'
scrapePageReturns ==
    /\ tp.pc = "loop"
    /\ tp.idx > Len(tp.paginated)
    /\ LET out == [limit |-> tp.limit, offset |-> tp.offset,
                   count |-> Len(tp.items), total |-> Len(tp.links),
                   data |-> tp.items]
           r == [tp EXCEPT !.output = << out >>, !.browser = "closed",
                           !.saved = (tp.variant = "cli")]
       IN  tp' = IF tp.variant = "api" THEN respond(r, 200, "result")
                 ELSE [r EXCEPT !.pc = "done"]
    /\ UNCHANGED typedVars

\* ---- the three programs --------------------------------------------------
\* the crawler CLI after its two prompts, the typed CLI after its prompts,
\* or the API with one request body
AppInit ==
    /\ CrawlIdle
    /\ fd = FdIdle
    /\ \/ /\ url \in URLs \cup {NoUrl}
          /\ \E nan \in BOOLEAN :
               /\ run = RunRec("main", nan)
               /\ timeLimit \in IF nan THEN {0} ELSE -1..MaxTimeLimit
          /\ tp = TpIdle
       \/ /\ url = NoUrl
          /\ timeLimit = 0
          /\ run = RunRec("off", FALSE)
          /\ tp \in TpInputs

AppNext ==
    \/ Tick
    \/ crawlSite
    \/ crawl
    \/ scrapePageDataOk
    \/ scrapePageDataThrows
    \/ crawlLoop
    \/ crawlSiteReturn
    \/ mainValidates
    \/ scrapperFuncLaunches
    \/ scrapperFuncLaunchThrows
    \/ crawlSiteNewPageThrows
    \/ scrapperFuncFinally
    \/ mainSaves
    \/ apiHandler
    \/ cliMain
    \/ scrapePageLaunches
    \/ scrapePageNewPage
    \/ scrapePageGoto
    \/ scrapePageLinks
    \/ scrapePageItem
    \/ scrapePageReturns

AppSpec == AppInit /\ [][AppNext]_vars

\* ---- filterData ---------------------------------------------------------------
\* the characters of a text: a letter, a blank and a line feed
Chars == {"a", " ", "\n"}

\* what \s matches, and what trim() removes
IsSpace(c) == c \in {" ", "\n"}

Items == {"x", "y"}

SeqsUpTo(S, n) == UNION { [1..k -> S] : k \in 0..n }

\* Array.from(new Set(a)): the elements of a in the order of their first
\* insertion
RECURSIVE uniqueKeepLast(_)
uniqueKeepLast(a) ==
    IF a = <<>> THEN <<>>
    ELSE LET rest == uniqueKeepLast(Tail(a)) IN
         IF \E k \in 1..Len(rest) : rest[k] = Head(a)
           THEN rest ELSE << Head(a) >> \o rest

RECURSIVE uniqueNewestFirst(_)
uniqueNewestFirst(a) ==
    IF a = <<>> THEN <<>>
    ELSE LET init == uniqueNewestFirst(SubSeq(a, 1, Len(a) - 1)) IN
         IF \E k \in 1..Len(init) : init[k] = a[Len(a)]
           THEN init ELSE << a[Len(a)] >> \o init

RECURSIVE unique(_)
unique(a) ==
    IF a = <<>> THEN <<>>
    ELSE LET init == unique(SubSeq(a, 1, Len(a) - 1)) IN
         IF \E k \in 1..Len(init) : init[k] = a[Len(a)]
           THEN init ELSE Append(init, a[Len(a)])

RECURSIVE dropSpaces(_)
dropSpaces(t) ==
    IF t # <<>> /\ IsSpace(Head(t)) THEN dropSpaces(Tail(t)) ELSE t

\* replace(/\s+/g, ' '): every maximal run of white space becomes one blank
RECURSIVE collapse(_)
collapse(t) ==
    IF t = <<>> THEN <<>>
    ELSE IF IsSpace(Head(t))
      THEN << " " >> \o collapse(dropSpaces(Tail(t)))
      ELSE << Head(t) >> \o collapse(Tail(t))

Reverse(t) == [k \in 1..Len(t) |-> t[Len(t) + 1 - k]]

\* trim(): white space is removed at both ends
trim(t) == Reverse(dropSpaces(Reverse(dropSpaces(t))))

\* filterData(data)
filterData(data) ==
    [links |-> unique(data.links),
     images |-> unique(data.images),
     textContent |-> trim(collapse(data.textContent)),
     htmlContent |-> data.htmlContent]

\* the records filterData is tried on
FdInputs ==
    [links : SeqsUpTo(Items, MaxItems),
     images : SeqsUpTo(Items, MaxItems),
     textContent : SeqsUpTo(Chars, MaxText),
     htmlContent : {<< "a" >>, << " ", "a", " ", " " >>}]

FdInit ==
    /\ url = NoUrl
    /\ timeLimit = 0
    /\ CrawlIdle
    /\ run = RunRec("off", FALSE)
    /\ tp = TpIdle
    /\ \E d \in FdInputs : fd = [pc |-> "given", d |-> d]

\* filterData is applied to the record
fdFilter ==
    /\ fd.pc = "given"
    /\ fd' = [pc |-> "once", d |-> fd.d, out |-> filterData(fd.d)]
    /\ UNCHANGED << crawlVars, run, tp >>

\* filterData is applied to its own result
fdFilterAgain ==
    /\ fd.pc = "once"
    /\ fd' = [pc |-> "twice", d |-> fd.d, out |-> fd.out,
              again |-> filterData(fd.out)]
    /\ UNCHANGED << crawlVars, run, tp >>

FdNext ==
    \/ fdFilter
    \/ fdFilterAgain

FilterSpec == FdInit /\ [][FdNext]_vars

TypeOK ==
    /\ url \in URLs
    /\ timeLimit \in 0..MaxTimeLimit
    /\ status \in {"idle", "running", "returned", "failed"}
    /\ visited \subseteq URLs
    /\ webLinks <= MaxWebLinks

\* ---- the crawl the spec describes, for comparison -----------------------
\* crawl(url) of spec 4.3 with the scope prefix fixed to the seed, as a
\* walk over a work list: the pre-order in which it records pages
RECURSIVE SpecWalk(_, _, _)
SpecWalk(todo, seen, out) ==
    IF todo = <<>> THEN out
    ELSE LET u == Head(todo) IN
         IF u \in seen THEN SpecWalk(Tail(todo), seen, out)
         ELSE SpecWalk(SelectSeq(web[u], LAMBDA l : StartsWith(l, url))
                          \o Tail(todo),
                       seen \cup {u}, Append(out, u))

\* every link in the seed's scope found on a recorded page is itself fetched
ScopeClosed ==
    \A k \in 1..Len(allData) : \A j \in 1..Len(allData[k].links) :
        StartsWith(allData[k].links[j], url)
            => allData[k].links[j] \in DOMAIN web

Records(u) == { k \in 1..Len(allData) : allData[k].url = u }

LinksOf(rec) == { rec.links[j] : j \in 1..Len(rec.links) }

\* ---- claims ---------------------------------------------------------------

\* C1: within one crawlSite invocation no URL is passed to scrapePageData
\* more than once, and a URL whose fetch is in flight is already in visited.
C1_NoUrlFetchedTwice ==
    /\ \A i \in 1..Len(fetchLog) : \A j \in 1..Len(fetchLog) :
          i # j => fetchLog[i] # fetchLog[j]
    /\ \A k \in 1..Len(stack) :
          stack[k].pc = "fetching" => stack[k].url \in visited

\* a page that links to itself was crawled to the end
C1_Witness ==
    /\ status = "returned"
    /\ \E k \in 1..Len(allData) : allData[k].url \in LinksOf(allData[k])

\* C2: a fetch failure on a non-root URL does not abort the crawl
\* (crawlSite does not fail because of it).
C2_NonRootFailureDoesNotAbort ==
    ~ (status = "failed" /\ failedUrl # url)

\* C3: when the crawl ran to its end without the deadline being observed,
\* every link of a recorded page that starts with the seed string has been
\* recursed into, hence visited.
C3_SeedPrefixedLinksFollowed ==
    (status = "returned" /\ ~ expiredSeen) =>
        \A k \in 1..Len(allData) : \A l \in LinksOf(allData[k]) :
            StartsWith(l, url) => l \in visited

\* C4: every URL fetched has the seed string as a literal prefix.
C4_FetchedUrlsHaveSeedPrefix ==
    \A k \in 1..Len(fetchLog) : StartsWith(fetchLog[k], url)

\* a page two levels down was fetched, and a link outside the seed's
\* prefix was found and left alone
C4_Witness ==
    /\ status = "returned"
    /\ Len(fetchLog) >= 3
    /\ \E k \in 1..Len(allData) : \E l \in LinksOf(allData[k]) :
          /\ allData[k].url # url
          /\ ~ StartsWith(l, url)
          /\ l \notin visited

\* C5: the result of a crawl that ran to its end is the depth-first
\* pre-order of the link graph restricted to links in the seed's scope:
\* every page reached through such links is recorded, in the order of the
\* walk of spec 4.3.
C5_ResultIsSeedScopedPreorder ==
    (status = "returned" /\ ~ expiredSeen) =>
        /\ ScopeClosed
        /\ UrlsOf(result) = SpecWalk(<< url >>, {}, <<>>)

\* C6: no fetch starts once the elapsed time has reached the budget, nor
\* after a checkpoint has observed the expiry.
C6_NoFetchAfterDeadline ==
    [][ Len(fetchLog') > Len(fetchLog)
            => (~ DeadlinePassed /\ ~ expiredSeen) ]_vars

\* the expiry was observed two levels down, and a link the page would
\* otherwise follow was left unfetched
C6_Witness ==
    /\ status = "returned"
    /\ expiredSeen
    /\ Len(fetchLog) >= 2
    /\ \E k \in 1..Len(allData) : \E l \in LinksOf(allData[k]) :
          /\ allData[k].url = url
          /\ InScope(l, allData[k].url)
          /\ l \notin visited

\* C7: with timeLimit = 0 no URL other than the seed is fetched, and when
\* the deadline is already expired at the entry of crawl(seed) nothing is.
C7_ZeroBudgetFetchesAtMostSeed ==
    /\ timeLimit = 0 =>
          /\ Len(fetchLog) <= 1
          /\ \A k \in 1..Len(fetchLog) : fetchLog[k] = url
    /\ rootExpired => fetchLog = <<>>

C7_Witness ==
    /\ status = "returned"
    /\ timeLimit = 0
    /\ rootExpired
    /\ result = <<>>

\* C8: a fetch that completes after the deadline passed still gets its
\* record, and none of the links of that page is followed.
C8_LateFetchRecordedLinksSkipped ==
    /\ \A u \in lateDone : Records(u) # {}
    /\ \A u \in DOMAIN parentOf : parentOf[u] \notin lateDone

\* the deadline passed during the fetch of a page that has a link the
\* crawl would follow
C8_Witness ==
    /\ status = "returned"
    /\ \E k \in 1..Len(result) : \E l \in LinksOf(result[k]) :
          /\ result[k].url \in lateDone
          /\ InScope(l, result[k].url)
          /\ l \notin visited

\* C9: every visited URL has at most one record, every record's url is
\* visited, and the visited set never loses a URL.
C9_VisitedAndRecords ==
    /\ [] ( /\ \A u \in visited : Cardinality(Records(u)) <= 1
            /\ \A k \in 1..Len(allData) : allData[k].url \in visited )
    /\ [][ visited \subseteq visited' ]_vars

\* a visited URL without a record (its fetch failed) next to a recorded one
C9_Witness ==
    /\ status = "failed"
    /\ failedUrl \in visited
    /\ Records(failedUrl) = {}
    /\ Len(allData) >= 1

\* C10: if every fetch completes, crawlSite eventually returns or fails.
C10_CrawlTerminates ==
    <> (status \in {"returned", "failed"})

\* a crawl over a graph with a cycle between two pages came to its end
C10_Witness ==
    /\ status = "returned"
    /\ \E a \in 1..Len(allData) : \E b \in 1..Len(allData) :
          /\ a # b
          /\ allData[b].url \in LinksOf(allData[a])
          /\ allData[a].url \in LinksOf(allData[b])

\* ---- claims on filterData --------------------------------------------------
Elems(a) == { a[k] : k \in 1..Len(a) }

FirstAt(a, x) == CHOOSE k \in 1..Len(a) :
                    a[k] = x /\ \A j \in 1..(k - 1) : a[j] # x

\* out holds the distinct elements of a, each once, by first occurrence
IsFirstOccurrenceList(out, a) ==
    /\ Elems(out) = Elems(a)
    /\ \A i \in 1..Len(out) : \A j \in 1..Len(out) :
          i < j => FirstAt(a, out[i]) < FirstAt(a, out[j])

\* the words of a text: its maximal runs of characters that are no space
RECURSIVE WordsOf(_, _)
WordsOf(t, cur) ==
    IF t = <<>> THEN (IF cur = <<>> THEN <<>> ELSE << cur >>)
    ELSE IF IsSpace(Head(t))
      THEN (IF cur = <<>> THEN <<>> ELSE << cur >>) \o WordsOf(Tail(t), <<>>)
      ELSE WordsOf(Tail(t), Append(cur, Head(t)))

RECURSIVE JoinWords(_)
JoinWords(ws) ==
    IF ws = <<>> THEN <<>>
    ELSE IF Len(ws) = 1 THEN ws[1]
    ELSE ws[1] \o << " " >> \o JoinWords(Tail(ws))

\* C15: filterData is idempotent: applied to its own result it returns that
\* result, field by field and element by element.
C15_FilterDataIdempotent ==
    fd.pc = "twice" =>
        /\ fd.again.links = fd.out.links
        /\ fd.again.images = fd.out.images
        /\ fd.again.textContent = fd.out.textContent
        /\ fd.again.htmlContent = fd.out.htmlContent

\* a record with duplicate links and images and with white space at an end
\* and a run of it inside was filtered twice
C15_Witness ==
    /\ fd.pc = "twice"
    /\ Len(fd.out.links) < Len(fd.d.links)
    /\ Len(fd.out.images) < Len(fd.d.images)
    /\ fd.d.textContent = << "\n", " ", "a" >>

InFlight == { k \in DOMAIN stack : stack[k].pc = "fetching" }

C14_FetchesSequential ==
    /\ Cardinality(InFlight) <= 1
    /\ InFlight \subseteq { Len(stack) }
    /\ status = "running" =>
         Len(fetchLog) = Len(allData) + Cardinality(InFlight)

\* a second fetch is in flight below two suspended activations
C14_Witness ==
    /\ Len(stack) >= 2
    /\ InFlight = { Len(stack) }
    /\ Len(allData) >= 1

\* the claims' notion of a valid input
Recognized(w) == w.t = "string" /\ toLowerCase(w.s) \in WEBSITE_TYPES

PositiveNumber(x) == x.t = "int" /\ x.v > 0

CrawlerInputInvalid ==
    /\ run.phase \notin {"off", "direct"}
    /\ (url = NoUrl \/ run.tlNaN \/ timeLimit <= 0)

TypedInputInvalid ==
    /\ tp.pc # "off"
    /\ (~ tp.urlGiven \/ ~ PositiveNumber(tp.tl) \/ ~ Recognized(tp.wt))

ErrorBodies == { [code |-> c, kind |-> "error"] : c \in {400, 500} }

\* C11: at each of the three entry points an input with a missing URL, a
\* time limit that is no positive number or an unrecognized websiteType
\* launches no browser and loads no page, and once it is handled the
\* rejection has been reported (a message and exit, or a 4xx response)
C11_InvalidInputRejected ==
    /\ CrawlerInputInvalid =>
         /\ run.launches = 0
         /\ fetchLog = <<>>
         /\ run.phase # "main" => run.phase = "exit" /\ run.reported
    /\ TypedInputInvalid =>
         /\ tp.launches = 0
         /\ tp.loads = <<>>
         /\ tp.pc # "entry" =>
              /\ tp.pc = "done"
              /\ IF tp.variant = "api"
                   THEN tp.responses = << [code |-> 400, kind |-> "error"] >>
                   ELSE tp.reported

\* C12: once the POST /scrape handler is over, the request has exactly one
\* response, the result object or a JSON error body with a 4xx/5xx status
C12_ExactlyOneJsonResponse ==
    (tp.variant = "api" /\ tp.pc = "done") =>
        /\ Len(tp.responses) = 1
        /\ tp.responses[1] \in
             ErrorBodies \cup { [code |-> 200, kind |-> "result"] }

\* C13: after a failed launch no page is ever loaded, no file is written,
\* and the run ends with the failure reported at the top: main's catch of
\* either CLI, or one 500 response of the API
C13_LaunchFailureIsFatal ==
    /\ run.launchFailed =>
         /\ status = "idle"
         /\ fetchLog = <<>>
         /\ ~ run.rawSaved /\ ~ run.filteredSaved
         /\ run.phase = "done" /\ run.reported
    /\ tp.launchFailed =>
         /\ tp.loads = <<>>
         /\ ~ tp.saved /\ tp.output = <<>>
         /\ tp.pc = "done"
         /\ IF tp.variant = "api"
              THEN tp.responses = << [code |-> 500, kind |-> "error"] >>
              ELSE tp.reported

\* the crawler's launch failed and main is over
C13_Witness == run.launchFailed /\ run.phase = "done" /\ run.launches = 0

\* the links of s that did not fail, in the order of s
Succeeded(s) == SelectSeq(s, LAMBDA l : l \notin tp.failed)

\* C17: in the typed scrapePage every link of the slice is loaded, in the
\* order of the slice, whether or not earlier links failed; the items are
\* those of the links that did not fail; and a scrape that got as far as
\* loading a link ends with the result object
C17_ItemFailureRecoveredLocally ==
    /\ tp.pc = "loop" =>
         /\ tp.loads = << 0 >> \o SubSeq(tp.paginated, 1, tp.idx - 1)
         /\ tp.items = Succeeded(SubSeq(tp.paginated, 1, tp.idx - 1))
    /\ (tp.pc = "done" /\ Len(tp.loads) > 1) =>
         /\ tp.output # <<>>
         /\ tp.loads = << 0 >> \o tp.paginated
         /\ tp.output[1].data = Succeeded(tp.paginated)
         /\ tp.variant = "api" =>
              tp.responses = << [code |-> 200, kind |-> "result"] >>

\* the first link failed, the second was loaded and is the only item
C17_Witness ==
    /\ tp.pc = "done"
    /\ tp.paginated = << 1, 2 >>
    /\ tp.failed = {1}
    /\ tp.output # <<>>
    /\ tp.output[1].data = << 2 >>

\* C18: when scrapperFunc or a typed scrapePage has settled after a
\* successful launch, the browser is closed
C18_LaunchedBrowserClosed ==
    /\ (run.phase \in {"save", "done"} /\ run.launches > 0) =>
         run.browser = "closed"
    /\ (tp.pc = "done" /\ tp.launches > 0) => tp.browser = "closed"

\* C19: crawlSite returning for a positive time limit returns a list that
\* starts with the seed's record, and the record main hands to filterData
\* is defined
C19_SeedRecordFirst ==
    /\ (status = "returned" /\ timeLimit > 0) =>
         /\ result # <<>>
         /\ result[1].url = url
    /\ run.filterCalled => run.filterDefined

\* main has filtered the first of several records
C19_Witness ==
    /\ run.filterCalled
    /\ run.filteredSaved
    /\ Len(result) >= 2

\* C20: in a result of the typed scrapePage count is the length of data,
\* at most limit and at most max(0, total - offset); data follow the order
\* of the paginated links; total is the number of unique relevant links
C20_PaginationCounts ==
    tp.output # <<>> =>
        LET o == tp.output[1]
        IN  /\ o.count = Len(o.data)
            /\ o.limit.nan \/ o.count <= o.limit.v
            /\ o.offset.nan \/ o.count <= Max(0, o.total - o.offset.v)
            /\ o.data = Succeeded(tp.paginated)
            /\ o.total = Len(tp.links)

====
